---- MODULE Spec2Model ----
(***************************************************************************)
(* Model of the Unix Domain Socket driver of the PFS server                *)
(* (servers/pfs/dev_uds.c): the descriptor table uds_fd_table, the         *)
(* handlers uds_open, uds_close, uds_select, uds_read, uds_write,          *)
(* uds_ioctl, uds_cancel and the helpers uds_perform_read,                 *)
(* uds_perform_write and uds_unsuspend.  The server is single threaded:    *)
(* one request is handled to completion per step, every nested             *)
(* uds_unsuspend included.                                                 *)
(***************************************************************************)
EXTENDS Integers, Sequences, FiniteSets, TLC

(* ---------------------------------------------------------------- bounds *)
\* number of slots of uds_fd_table (slot 0 is the device itself)
NR_FDS == 5
\* capacity of a socket's pipe buffer, scaled down
PIPE_BUF == 2
\* length of the backlog array of a descriptor, scaled down
UDS_SOMAXCONN == 2
\* number of socket addresses a caller may name
NrAddrs == 1
\* nesting depth of uds_unsuspend beyond which the server's stack is taken
\* to be exhausted
MaxDepth == 6
\* the slots the callers of each specification open
IoFds == 2
DgramFds == 3
ConnFds == 4

(* ------------------------------------------------------------- constants *)
\* return codes; a server sees error numbers negated
OK == 0
SUSPEND == -998
ENOENT == -2
EINTR == -4
EINVAL == -22
ENFILE == -23
EPIPE == -32
ECONNREFUSED == -53
ECONNRESET == -54
EMSGSIZE == -59
ENOTCONN == -61
EBADIOCTL == -105
ESRCH == -3
ENOMEM == -12
EISCONN == -56

Minors == 0 .. (NR_FDS - 1)
Addrs == 1 .. NrAddrs
\* S_IRUSR, S_IWUSR of mode and SEL_RD, SEL_WR of sel_ops_in/out are kept as
\* the elements of a set of flags
S_IRUSR == "S_IRUSR"
S_IWUSR == "S_IWUSR"
SEL_RD == "SEL_RD"
SEL_WR == "SEL_WR"

\* the backlog of a descriptor after memset(0) and after uds_open
ZeroBacklog == [j \in 0 .. (UDS_SOMAXCONN - 1) |-> 0]
EmptyBacklog == [j \in 0 .. (UDS_SOMAXCONN - 1) |-> -1]
\* the contents of a fresh pipe inode
EmptyPipe == [o \in 0 .. (PIPE_BUF - 1) |-> 0]

\* a slot after memset(&uds_fd_table[minor], '\0', sizeof(uds_fd_t))
ZeroFd ==
  [ state |-> "UDS_FREE", type |-> "ZERO", mode |-> {},
    pos |-> 0, size |-> 0, pipe |-> EmptyPipe,
    peer |-> 0, child |-> 0,
    backlog |-> ZeroBacklog, backlog_size |-> 0, listening |-> 0,
    addr |-> 0, source |-> 0, target |-> 0,
    suspended |-> "UDS_NOT_SUSPENDED", ready_to_revive |-> 0,
    call_nr |-> "NONE", ioctl |-> "NONE", syscall_done |-> 0,
    selecting |-> 0, sel_ops_in |-> {}, sel_ops_out |-> {},
    status_updated |-> 0,
    io_gr_size |-> 0, err |-> 0 ]

\* a slot as uds_open leaves it before it asks for credentials and an inode
OpenedFd ==
  [ ZeroFd EXCEPT !.state = "UDS_INUSE", !.type = "UNSET",
                  !.mode = {S_IRUSR, S_IWUSR},
                  !.peer = -1, !.child = -1,
                  !.backlog = EmptyBacklog, !.backlog_size = UDS_SOMAXCONN,
                  !.call_nr = "DEV_OPEN" ]

\* the bytes a caller's grant holds for a write of n bytes on minor
CallerBytes(minor, n) == [i \in 1 .. n |-> 10 * minor + i]

Min(a, b) == IF a < b THEN a ELSE b

\* uds_fd_table: the descriptor table.  crashed: a request never returned.
\* arrival: the connectors waiting in a backlog, oldest first; the code
\* keeps no such record, it is kept here to say what "oldest" means.
VARIABLES uds_fd_table, crashed, arrival
vars == <<uds_fd_table, crashed, arrival>>

(* ------------------------------------------------------ the nested calls *)
\* While one request is handled the handlers thread through their calls a
\* record s = [t, out, crash, io]: the descriptor table, the replies sent
\* with reply() so far, whether the nesting of uds_unsuspend exhausted the
\* stack, and the descriptors for which fs_readwrite() moved bytes, in the
\* order of the calls.  A call returns that record extended with its return
\* value rc, for a read the bytes copied to the caller (data), and for a
\* select the operations reported ready (ops).
Ret(s, rc) ==
  [t |-> s.t, out |-> s.out, crash |-> s.crash, io |-> s.io, rc |-> rc,
   data |-> <<>>, ops |-> {}]

St(r) == [t |-> r.t, out |-> r.out, crash |-> r.crash, io |-> r.io]

Reply(type, minor, status, ops, data) ==
  [type |-> type, minor |-> minor, status |-> status, ops |-> ops,
   data |-> data]

ConnOriented(type) == type \in {"SOCK_STREAM", "SOCK_SEQPACKET"}

\* the bytes fs_readwrite(REQ_READ) copies out of the inode of fd
PipeRead(fd, n) == [i \in 1 .. n |-> fd.pipe[fd.pos + i - 1]]

\* the inode of fd after fs_readwrite(REQ_WRITE) of bytes at its end
PipeWrite(fd, bytes) ==
  [o \in 0 .. (PIPE_BUF - 1) |->
     IF o >= fd.pos + fd.size /\ o < fd.pos + fd.size + Len(bytes)
       THEN bytes[o - (fd.pos + fd.size) + 1]
       ELSE fd.pipe[o]]

\* DgramPeer that takes the first bound datagram socket, whatever its address
DgramPeerAnyBound(t, minor) ==
  LET match == {i \in Minors : t[i].type = "SOCK_DGRAM" /\ t[i].addr # 0}
  IN IF match = {} THEN -1
     ELSE CHOOSE i \in match : \A k \in match : i <= k

\* the datagram socket a write of minor goes to: the first slot of type
\* SOCK_DGRAM bound to minor's target address, or -1
DgramPeer(t, minor) ==
  LET match == {i \in Minors : /\ t[i].type = "SOCK_DGRAM"
                               /\ t[i].addr # 0
                               /\ t[i].addr = t[minor].target}
  IN IF match = {} THEN -1
     ELSE CHOOSE i \in match : \A k \in match : i <= k

RECURSIVE uds_perform_read(_, _, _, _, _)
RECURSIVE uds_perform_write(_, _, _, _, _)
RECURSIVE uds_unsuspend(_, _, _)

\* RevivePeer that marks the peer awake itself and calls no uds_unsuspend
RevivePeerDirect(s, peer, d) ==
  IF s.t[peer].suspended # "UDS_NOT_SUSPENDED"
    THEN [s EXCEPT !.t[peer].suspended = "UDS_NOT_SUSPENDED"]
    ELSE s

\* if (uds_fd_table[peer].suspended) { ready_to_revive = 1; uds_unsuspend }
RevivePeer(s, peer, d) ==
  IF s.t[peer].suspended # "UDS_NOT_SUSPENDED"
    THEN uds_unsuspend([s EXCEPT !.t[peer].ready_to_revive = 1], peer, d)
    ELSE s

\* NotifySelect that tells the peer of op whether it asked for op or not
NotifySelectUnasked(s, peer, op, d) ==
  IF op \notin s.t[peer].sel_ops_out
    THEN uds_unsuspend(
           [s EXCEPT !.t[peer].sel_ops_out = @ \cup {op},
                     !.t[peer].status_updated = 1], peer, d)
    ELSE s

\* the peer learns through select that op became possible
NotifySelect(s, peer, op, d) ==
  IF op \in s.t[peer].sel_ops_in /\ op \notin s.t[peer].sel_ops_out
    THEN uds_unsuspend(
           [s EXCEPT !.t[peer].sel_ops_out = @ \cup {op},
                     !.t[peer].status_updated = 1], peer, d)
    ELSE s

\* ReadEmpty that goes to sleep on a probe as on a read
ReadEmptyNoProbe(s, minor, peer, pretend, d) ==
  LET fd == s.t[minor] IN
  IF peer = -1 /\ ConnOriented(fd.type)
    THEN IF fd.err = ECONNRESET
           THEN Ret([s EXCEPT !.t[minor].err = 0], ECONNRESET)
           ELSE Ret(s, ENOTCONN)
  ELSE IF peer # -1 /\ S_IWUSR \notin s.t[peer].mode
    THEN Ret(s, 0)
  ELSE LET s1 == IF peer # -1 THEN RevivePeer(s, peer, d) ELSE s
       IN Ret([s1 EXCEPT !.t[minor].suspended = "UDS_SUSPENDED_READ"],
              SUSPEND)

\* the read of an empty pipe
ReadEmpty(s, minor, peer, pretend, d) ==
  LET fd == s.t[minor] IN
  IF peer = -1 /\ ConnOriented(fd.type)
    THEN IF fd.err = ECONNRESET
           THEN Ret([s EXCEPT !.t[minor].err = 0], ECONNRESET)
           ELSE Ret(s, ENOTCONN)
  ELSE IF peer # -1 /\ S_IWUSR \notin s.t[peer].mode
    THEN Ret(s, 0)
  ELSE IF pretend
    THEN Ret(s, SUSPEND)
  ELSE LET s1 == IF peer # -1 THEN RevivePeer(s, peer, d) ELSE s
       IN Ret([s1 EXCEPT !.t[minor].suspended = "UDS_SUSPENDED_READ"],
              SUSPEND)

\* ReadData that leaves the data pointer where the last byte was read
ReadDataNoRewind(s, minor, peer, size, d) ==
  LET fd == s.t[minor]
      n == Min(size, fd.size)
      s1 == [s EXCEPT !.t[minor].pos = fd.pos + n,
                      !.t[minor].size = fd.size - n]
      s2 == IF peer # -1 THEN RevivePeer(s1, peer, d) ELSE s1
  IN [Ret(s2, n) EXCEPT !.data = PipeRead(fd, n)]

\* the read that takes bytes out of the pipe
ReadData(s, minor, peer, size, d) ==
  LET fd == s.t[minor]
      n == Min(size, fd.size)
      s1 == [s EXCEPT !.t[minor].pos = IF fd.size - n = 0 THEN 0
                                       ELSE fd.pos + n,
                      !.t[minor].size = fd.size - n,
                      !.io = Append(@, minor)]
      s2 == IF peer # -1 THEN RevivePeer(s1, peer, d) ELSE s1
      s3 == IF /\ peer # -1
               /\ s2.t[peer].selecting = 1
               /\ s2.t[minor].size + s2.t[minor].pos + 1 < PIPE_BUF
              THEN NotifySelect(s2, peer, SEL_WR, d)
              ELSE s2
  IN [Ret(s3, n) EXCEPT !.data = PipeRead(fd, n)]

uds_perform_read(s, minor, size, pretend, d) ==
  LET fd == s.t[minor]
      peer == fd.peer
  IN IF s.crash THEN Ret(s, SUSPEND)
     ELSE IF size <= 0 THEN Ret(s, 0)
     ELSE IF S_IRUSR \notin fd.mode THEN Ret(s, EPIPE)
     ELSE IF fd.size = 0 THEN ReadEmpty(s, minor, peer, pretend, d)
     ELSE IF pretend THEN Ret(s, Min(size, fd.size))
     ELSE ReadData(s, minor, peer, size, d)

\* WriteBlocked that reports the sleep and does not record it
WriteBlockedNoSleep(s, minor, peer, pretend, d) ==
  IF pretend
    THEN Ret(s, SUSPEND)
    ELSE Ret(RevivePeer(s, peer, d), SUSPEND)

\* the write that cannot go into the peer's pipe now
WriteBlocked(s, minor, peer, pretend, d) ==
  IF pretend
    THEN Ret(s, SUSPEND)
    ELSE LET s1 == RevivePeer(s, peer, d)
         IN Ret([s1 EXCEPT !.t[minor].suspended = "UDS_SUSPENDED_WRITE"],
                SUSPEND)

\* the write that puts size bytes into the peer's pipe
WriteData(s, minor, peer, size, d) ==
  LET fd == s.t[minor]
      s1 == [s EXCEPT
               !.t[peer].pipe = PipeWrite(s.t[peer], CallerBytes(minor, size)),
               !.t[peer].size = @ + size,
               !.io = Append(@, minor)]
      s2 == IF fd.type = "SOCK_DGRAM"
              THEN [s1 EXCEPT !.t[peer].source = s1.t[minor].addr]
              ELSE s1
      s3 == RevivePeer(s2, peer, d)
      s4 == IF s3.t[peer].selecting = 1 /\ size > 0
              THEN NotifySelect(s3, peer, SEL_RD, d)
              ELSE s3
  IN Ret(s4, size)

\* WriteTo with the overrun check taken from the bytes buffered alone, as if
\* the pipe always started at offset 0
WriteToIgnoringPos(s, minor, peer, size, pretend, d) ==
  LET fd == s.t[minor] IN
  IF peer = -1 THEN (IF pretend THEN Ret(s, SUSPEND) ELSE Ret(s, ENOENT))
  ELSE IF S_IRUSR \notin s.t[peer].mode THEN Ret(s, EPIPE)
  ELSE IF fd.type = "SOCK_DGRAM" /\ s.t[peer].size > 0 THEN Ret(s, size)
  ELSE IF \/ s.t[peer].size + size > PIPE_BUF
          \/ (fd.type = "SOCK_SEQPACKET" /\ s.t[peer].size > 0)
    THEN WriteBlocked(s, minor, peer, pretend, d)
  ELSE IF pretend THEN Ret(s, size)
  ELSE WriteData(s, minor, peer, size, d)

\* WriteTo that appends a datagram behind the one waiting
WriteToNoDrop(s, minor, peer, size, pretend, d) ==
  LET fd == s.t[minor] IN
  IF peer = -1 THEN (IF pretend THEN Ret(s, SUSPEND) ELSE Ret(s, ENOENT))
  ELSE IF S_IRUSR \notin s.t[peer].mode THEN Ret(s, EPIPE)
  ELSE IF \/ s.t[peer].pos + s.t[peer].size + size > PIPE_BUF
          \/ (fd.type = "SOCK_SEQPACKET" /\ s.t[peer].size > 0)
    THEN WriteBlocked(s, minor, peer, pretend, d)
  ELSE IF pretend THEN Ret(s, size)
  ELSE WriteData(s, minor, peer, size, d)

\* WriteTo that does not look at the mode of the peer
WriteToClosedPipe(s, minor, peer, size, pretend, d) ==
  LET fd == s.t[minor] IN
  IF peer = -1 THEN (IF pretend THEN Ret(s, SUSPEND) ELSE Ret(s, ENOENT))
  ELSE IF fd.type = "SOCK_DGRAM" /\ s.t[peer].size > 0 THEN Ret(s, size)
  ELSE IF \/ s.t[peer].pos + s.t[peer].size + size > PIPE_BUF
          \/ (fd.type = "SOCK_SEQPACKET" /\ s.t[peer].size > 0)
    THEN WriteBlocked(s, minor, peer, pretend, d)
  ELSE IF pretend THEN Ret(s, size)
  ELSE WriteData(s, minor, peer, size, d)

\* uds_perform_write once the peer is known
WriteTo(s, minor, peer, size, pretend, d) ==
  LET fd == s.t[minor] IN
  IF peer = -1 THEN (IF pretend THEN Ret(s, SUSPEND) ELSE Ret(s, ENOENT))
  ELSE IF S_IRUSR \notin s.t[peer].mode THEN Ret(s, EPIPE)
  ELSE IF fd.type = "SOCK_DGRAM" /\ s.t[peer].size > 0 THEN Ret(s, size)
  ELSE IF \/ s.t[peer].pos + s.t[peer].size + size > PIPE_BUF
          \/ (fd.type = "SOCK_SEQPACKET" /\ s.t[peer].size > 0)
    THEN WriteBlocked(s, minor, peer, pretend, d)
  ELSE IF pretend THEN Ret(s, size)
  ELSE WriteData(s, minor, peer, size, d)

uds_perform_write(s, minor, size, pretend, d) ==
  LET fd == s.t[minor] IN
  IF s.crash THEN Ret(s, SUSPEND)
  ELSE IF size <= 0 THEN Ret(s, 0)
  ELSE IF S_IWUSR \notin fd.mode THEN Ret(s, EPIPE)
  ELSE IF size > PIPE_BUF THEN Ret(s, EMSGSIZE)
  ELSE IF ConnOriented(fd.type)
    THEN IF fd.peer = -1
           THEN IF fd.err = ECONNRESET
                  THEN Ret([s EXCEPT !.t[minor].err = 0], ECONNRESET)
                  ELSE Ret(s, ENOTCONN)
           ELSE WriteTo(s, minor, fd.peer, size, pretend, d)
    ELSE WriteTo(s, minor, DgramPeer(s.t, minor), size, pretend, d)

\* Retry that sends the deferred reply whatever the retry returned
RetryAlwaysReplies(s, minor, r) ==
  IF r.crash
    THEN St(r)
    ELSE [St(r) EXCEPT
            !.t[minor].suspended = "UDS_NOT_SUSPENDED",
            !.out = Append(@, Reply("DEV_REVIVE", minor, r.rc, {}, r.data))]

\* the retry of the read or write a descriptor is suspended in; a retry
\* that never returns sends no reply
Retry(s, minor, r) ==
  IF r.crash \/ r.rc = SUSPEND
    THEN St(r)
    ELSE [St(r) EXCEPT
            !.t[minor].suspended = "UDS_NOT_SUSPENDED",
            !.out = Append(@, Reply("DEV_REVIVE", minor, r.rc, {}, r.data))]

\* uds_unsuspend that forgets a pending revive when it reports readiness
uds_unsuspendDropsRevive(s, minor, d) ==
  LET fdp == s.t[minor] IN
  IF s.crash THEN s
  ELSE IF d >= MaxDepth THEN [s EXCEPT !.crash = TRUE]
  ELSE IF fdp.status_updated = 1
    THEN [s EXCEPT !.t[minor].status_updated = 0,
                   !.t[minor].selecting = 0,
                   !.t[minor].ready_to_revive = 0,
                   !.out = Append(@, Reply("DEV_SEL_REPL2", minor, 0,
                                           fdp.sel_ops_out, <<>>))]
  ELSE IF fdp.ready_to_revive = 1
    THEN LET s0 == [s EXCEPT !.t[minor].ready_to_revive = 0] IN
         CASE fdp.suspended = "UDS_SUSPENDED_READ" ->
                Retry(s0, minor,
                      uds_perform_read(s0, minor, fdp.io_gr_size, FALSE,
                                       d + 1))
           [] fdp.suspended = "UDS_SUSPENDED_WRITE" ->
                Retry(s0, minor,
                      uds_perform_write(s0, minor, fdp.io_gr_size, FALSE,
                                        d + 1))
           [] fdp.suspended \in {"UDS_SUSPENDED_CONNECT",
                                 "UDS_SUSPENDED_ACCEPT"} ->
                [s0 EXCEPT
                   !.t[minor].suspended = "UDS_NOT_SUSPENDED",
                   !.out = Append(@, Reply("DEV_REVIVE", minor, OK, {},
                                           <<>>))]
           [] OTHER -> s0
  \* neither flag is set: m_out is sent as it lies on the stack
  ELSE [s EXCEPT !.out = Append(@, Reply("UNINITIALIZED", minor, 0, {},
                                         <<>>))]

uds_unsuspend(s, minor, d) ==
  LET fdp == s.t[minor] IN
  IF s.crash THEN s
  ELSE IF d >= MaxDepth THEN [s EXCEPT !.crash = TRUE]
  ELSE IF fdp.status_updated = 1
    THEN [s EXCEPT !.t[minor].status_updated = 0,
                   !.t[minor].selecting = 0,
                   !.out = Append(@, Reply("DEV_SEL_REPL2", minor, 0,
                                           fdp.sel_ops_out, <<>>))]
  ELSE IF fdp.ready_to_revive = 1
    THEN LET s0 == [s EXCEPT !.t[minor].ready_to_revive = 0] IN
         CASE fdp.suspended = "UDS_SUSPENDED_READ" ->
                Retry(s0, minor,
                      uds_perform_read(s0, minor, fdp.io_gr_size, FALSE,
                                       d + 1))
           [] fdp.suspended = "UDS_SUSPENDED_WRITE" ->
                Retry(s0, minor,
                      uds_perform_write(s0, minor, fdp.io_gr_size, FALSE,
                                        d + 1))
           [] fdp.suspended \in {"UDS_SUSPENDED_CONNECT",
                                 "UDS_SUSPENDED_ACCEPT"} ->
                [s0 EXCEPT
                   !.t[minor].suspended = "UDS_NOT_SUSPENDED",
                   !.out = Append(@, Reply("DEV_REVIVE", minor, OK, {},
                                           <<>>))]
           [] OTHER -> s0
  \* neither flag is set: m_out is sent as it lies on the stack
  ELSE [s EXCEPT !.out = Append(@, Reply("UNINITIALIZED", minor, 0, {},
                                         <<>>))]

(* ----------------------------------------------- the control operations *)
\* The bodies of the ioctl requests live in uds.c.  They are modelled from
\* the design description (sections 4.3 and 4.6) and from what uds_cancel
\* and uds_unsuspend say about them: a partial connect() "sets addr and adds
\* minor to server backlog", a partial accept() "only changes
\* uds_fd_table[minorparent].child", and whoever finds the other side
\* waiting performs the connection and wakes it.

\* the first slot j < backlog_size of fd with backlog[j] free, or -1
FreeBacklogSlot(fd) ==
  LET free == {j \in 0 .. (UDS_SOMAXCONN - 1) :
                 j < fd.backlog_size /\ fd.backlog[j] = -1}
  IN IF free = {} THEN -1 ELSE CHOOSE j \in free : \A k \in free : j <= k

\* the first slot j < backlog_size of fd that holds a connector, or -1
FirstBacklogSlot(fd) ==
  LET used == {j \in 0 .. (UDS_SOMAXCONN - 1) :
                 j < fd.backlog_size /\ fd.backlog[j] # -1}
  IN IF used = {} THEN -1 ELSE CHOOSE j \in used : \A k \in used : j <= k

\* the listening sockets bound to addr
Listeners(t, addr) ==
  {i \in Minors : /\ t[i].state = "UDS_INUSE"
                  /\ t[i].listening = 1
                  /\ t[i].addr # 0
                  /\ t[i].addr = addr}

First(S) == CHOOSE i \in S : \A k \in S : i <= k

\* the symmetric link of two sockets
perform_connection(s, minorx, minory, addr) ==
  [s EXCEPT !.t[minorx].peer = minory, !.t[minory].peer = minorx,
            !.t[minorx].addr = addr, !.t[minory].addr = addr]

do_socket(s, minor, type) ==
  IF s.t[minor].type # "UNSET"
    THEN Ret(s, EINVAL)
    ELSE Ret([s EXCEPT !.t[minor].type = type], OK)

do_bind(s, minor, addr) ==
  Ret([s EXCEPT !.t[minor].addr = addr], OK)

do_sendto(s, minor, addr) ==
  IF s.t[minor].type # "SOCK_DGRAM"
    THEN Ret(s, EINVAL)
    ELSE Ret([s EXCEPT !.t[minor].target = addr], OK)

do_listen(s, minor, backlog_size) ==
  Ret([s EXCEPT !.t[minor].listening = 1,
                !.t[minor].backlog_size = backlog_size], OK)

do_shutdown(s, minor, how) ==
  Ret([s EXCEPT !.t[minor].mode = @ \ how], OK)

do_socketpair(s, minorx, minory) ==
  IF \/ s.t[minory].state # "UDS_INUSE"
     \/ minorx = minory
     \/ ~ConnOriented(s.t[minorx].type)
     \/ s.t[minorx].type # s.t[minory].type
     \/ s.t[minorx].peer # -1
     \/ s.t[minory].peer # -1
    THEN Ret(s, EINVAL)
    ELSE Ret([s EXCEPT !.t[minorx].peer = minory, !.t[minory].peer = minorx],
             OK)

do_connect(s, minor, addr) ==
  LET fd == s.t[minor]
      servers == {i \in Listeners(s.t, addr) : s.t[i].type = fd.type}
  IN IF ~ConnOriented(fd.type) THEN Ret(s, EINVAL)
     ELSE IF fd.peer # -1 THEN Ret(s, EISCONN)
     ELSE IF servers = {} THEN Ret(s, ECONNREFUSED)
     ELSE LET i == First(servers)
              child == s.t[i].child
              j == FreeBacklogSlot(s.t[i])
          IN IF child # -1
               \* the server waits in accept(): connect to its child
               THEN LET s1 == perform_connection(s, minor, child, addr)
                        s2 == [s1 EXCEPT !.t[i].child = -1,
                                         !.t[child].ready_to_revive = 1]
                    IN Ret(uds_unsuspend(s2, child, 0), OK)
             ELSE IF j = -1 THEN Ret(s, ECONNREFUSED)
             ELSE Ret([s EXCEPT
                         !.t[i].backlog[j] = minor,
                         !.t[minor].addr = addr,
                         !.t[minor].suspended = "UDS_SUSPENDED_CONNECT"],
                      SUSPEND)

do_accept(s, minor, addr) ==
  LET servers == Listeners(s.t, addr) IN
  IF s.t[minor].type # "UNSET" THEN Ret(s, EINVAL)
  ELSE IF servers = {} THEN Ret(s, EINVAL)
  ELSE LET minorparent == First(servers)
           j == FirstBacklogSlot(s.t[minorparent])
           s1 == [s EXCEPT !.t[minor].type = s.t[minorparent].type]
       IN IF j = -1
            THEN Ret([s1 EXCEPT
                        !.t[minorparent].child = minor,
                        !.t[minor].suspended = "UDS_SUSPENDED_ACCEPT"],
                     SUSPEND)
            ELSE LET minorpeer == s.t[minorparent].backlog[j]
                     s2 == perform_connection(
                             [s1 EXCEPT !.t[minorparent].backlog[j] = -1,
                                        !.t[minorparent].child = -1],
                             minor, minorpeer, addr)
                 IN Ret(RevivePeer(s2, minorpeer, 0), OK)

(* ------------------------------------------------------------ handlers *)
\* A handler takes the descriptor table and the request and returns the
\* table, the replies sent by nested revives, and the status it replies
\* with.
Enter(t) == [t |-> t, out |-> <<>>, crash |-> FALSE, io |-> <<>>]

\* FreeSlot that starts its scan at slot 0
FreeSlotFromZero(t) ==
  LET free == {i \in 0 .. (NR_FDS - 1) : t[i].state = "UDS_FREE"}
  IN IF free = {} THEN -1 ELSE First(free)

\* the first free slot other than slot 0, or -1
FreeSlot(t) ==
  LET free == {i \in 1 .. (NR_FDS - 1) : t[i].state = "UDS_FREE"}
  IN IF free = {} THEN -1 ELSE First(free)

\* uds_open that returns the error of fs_newnode() without the memset
uds_openNoRollback(t, cred_ok, node_ok) ==
  LET minor == FreeSlot(t) IN
  IF minor = -1 THEN Ret(Enter(t), ENFILE)
  ELSE IF ~cred_ok THEN Ret(Enter([t EXCEPT ![minor] = ZeroFd]), ESRCH)
  ELSE IF ~node_ok THEN Ret(Enter([t EXCEPT ![minor] = OpenedFd]), ENOMEM)
  ELSE Ret(Enter([t EXCEPT ![minor] = [OpenedFd EXCEPT !.syscall_done = 1]]),
           minor)

\* cred_ok: getnucred() finds the caller; node_ok: fs_newnode() succeeds
uds_open(t, cred_ok, node_ok) ==
  LET minor == FreeSlot(t) IN
  IF minor = -1 THEN Ret(Enter(t), ENFILE)
  ELSE IF ~cred_ok THEN Ret(Enter([t EXCEPT ![minor] = ZeroFd]), ESRCH)
  ELSE IF ~node_ok THEN Ret(Enter([t EXCEPT ![minor] = ZeroFd]), ENOMEM)
  ELSE Ret(Enter([t EXCEPT ![minor] = [OpenedFd EXCEPT !.syscall_done = 1]]),
           minor)

\* the disconnect of the peer in uds_close
\* ClosePeer that unlinks the peer and leaves it asleep
ClosePeerNoRevive(s, minor) ==
  LET peer == s.t[minor].peer IN
  IF peer # -1
    THEN [s EXCEPT !.t[peer].peer = -1, !.t[peer].err = ECONNRESET]
    ELSE s

ClosePeer(s, minor) ==
  LET peer == s.t[minor].peer IN
  IF peer # -1
    THEN RevivePeer([s EXCEPT !.t[peer].peer = -1,
                              !.t[peer].err = ECONNRESET], peer, 0)
    ELSE s

\* uds_close that keeps the slot when fs_putnode() fails
uds_closeKeepsOnError(t, minor, put_ok) ==
  IF t[minor].state # "UDS_INUSE" THEN Ret(Enter(t), EINVAL)
  ELSE LET s1 == ClosePeer(Enter(t), minor)
           s2 == IF put_ok THEN [s1 EXCEPT !.t[minor] = ZeroFd] ELSE s1
       IN Ret(s2, IF put_ok THEN OK ELSE ENOMEM)

\* put_ok: fs_putnode() succeeds
uds_close(t, minor, put_ok) ==
  IF t[minor].state # "UDS_INUSE" THEN Ret(Enter(t), EINVAL)
  ELSE LET s1 == ClosePeer(Enter(t), minor)
           s2 == [s1 EXCEPT !.t[minor] = ZeroFd]
       IN Ret(s2, IF put_ok THEN OK ELSE ENOMEM)

\* sel_ops_out as the bit mask uds_select returns
SelMask(ops) ==
  (IF SEL_RD \in ops THEN 1 ELSE 0) + (IF SEL_WR \in ops THEN 2 ELSE 0)

\* SelectRead that reports errors and pending connections, not data
SelectReadNoData(fd, bytes) ==
  IF bytes <= 0 /\ fd.listening = 1
    THEN (IF FirstBacklogSlot(fd) # -1 THEN {SEL_RD} ELSE {})
  ELSE IF bytes <= 0 /\ bytes # SUSPEND THEN {SEL_RD}
  ELSE {}

\* the SEL_RD part of uds_select
SelectRead(fd, bytes) ==
  IF bytes > 0 THEN {SEL_RD}
  ELSE IF fd.listening = 1
    THEN (IF FirstBacklogSlot(fd) # -1 THEN {SEL_RD} ELSE {})
  ELSE IF bytes # SUSPEND THEN {SEL_RD}
  ELSE {}

uds_select(t, minor, ops) ==
  IF t[minor].state # "UDS_INUSE" THEN Ret(Enter(t), EINVAL)
  ELSE LET s0 == Enter([t EXCEPT ![minor].selecting = 1,
                                 ![minor].call_nr = "DEV_SELECT",
                                 ![minor].ioctl = "NONE",
                                 ![minor].syscall_done = 0,
                                 ![minor].sel_ops_in = ops,
                                 ![minor].sel_ops_out = {}])
           \* what follows the write probe, whose result is wr
           AfterWrite(wr) ==
             LET s2 == [St(wr) EXCEPT
                          !.t[minor].sel_ops_out =
                             @ \cup (IF wr.rc # 0 /\ wr.rc # SUSPEND
                                       THEN {SEL_WR} ELSE {}),
                          !.t[minor].syscall_done = 1]
             IN [Ret(s2, SelMask(s2.t[minor].sel_ops_out)) EXCEPT
                   !.ops = s2.t[minor].sel_ops_out]
           \* what follows the read probe, whose result is rd
           AfterRead(rd) ==
             LET s1 == [St(rd) EXCEPT
                          !.t[minor].sel_ops_out =
                             @ \cup SelectRead(rd.t[minor], rd.rc)]
             IN CHOOSE r \in
                  {AfterWrite(wr) :
                     wr \in {uds_perform_write(s1, minor, PIPE_BUF, TRUE, 0)}} :
                  TRUE
       IN CHOOSE r \in
            {AfterRead(rd) :
               rd \in {uds_perform_read(s0, minor, 1, TRUE, 0)}} : TRUE

\* what uds_read and uds_write record before they transfer
TrackIo(t, minor, call_nr, count) ==
  [t EXCEPT ![minor].call_nr = call_nr,
            ![minor].ioctl = "NONE",
            ![minor].syscall_done = 0,
            ![minor].selecting = 0,
            ![minor].io_gr_size = count]

uds_read(t, minor, count) ==
  IF t[minor].state # "UDS_INUSE" THEN Ret(Enter(t), EINVAL)
  ELSE uds_perform_read(Enter(TrackIo(t, minor, "DEV_READ_S", count)),
                        minor, count, FALSE, 0)

uds_write(t, minor, count) ==
  IF t[minor].state # "UDS_INUSE" THEN Ret(Enter(t), EINVAL)
  ELSE uds_perform_write(Enter(TrackIo(t, minor, "DEV_WRITE_S", count)),
                         minor, count, FALSE, 0)

\* the switch of uds_ioctl
IoctlSwitch(s, minor, request, arg) ==
  CASE request = "NWIOSUDSCONN" -> do_connect(s, minor, arg)
    [] request = "NWIOSUDSACCEPT" -> do_accept(s, minor, arg)
    [] request = "NWIOSUDSBLOG" -> do_listen(s, minor, arg)
    [] request = "NWIOSUDSTYPE" -> do_socket(s, minor, arg)
    [] request = "NWIOSUDSADDR" -> do_bind(s, minor, arg)
    [] request = "NWIOSUDSSHUT" -> do_shutdown(s, minor, arg)
    [] request = "NWIOSUDSPAIR" -> do_socketpair(s, minor, arg)
    [] request = "NWIOSUDSTADDR" -> do_sendto(s, minor, arg)
    [] OTHER -> Ret(s, EBADIOCTL)

uds_ioctl(t, minor, request, arg) ==
  IF t[minor].state # "UDS_INUSE" THEN Ret(Enter(t), EINVAL)
  ELSE LET s0 == Enter([t EXCEPT ![minor].call_nr = "DEV_IOCTL_S",
                                 ![minor].ioctl = request,
                                 ![minor].syscall_done = 0,
                                 ![minor].selecting = 0])
           r == IoctlSwitch(s0, minor, request, arg)
       IN IF r.rc # SUSPEND
            THEN [r EXCEPT !.t[minor].syscall_done = 1]
            ELSE r

\* CancelConnect that stops at the first backlog entry it removes
CancelConnectFirstOnly(t, minor) ==
  LET holds == {i \in Minors :
                  /\ t[i].state = "UDS_INUSE"
                  /\ \E j \in 0 .. (UDS_SOMAXCONN - 1) :
                        j < t[i].backlog_size /\ t[i].backlog[j] = minor}
      i0 == CHOOSE i \in holds : \A k \in holds : i <= k
      slots == {j \in 0 .. (UDS_SOMAXCONN - 1) :
                  j < t[i0].backlog_size /\ t[i0].backlog[j] = minor}
      j0 == CHOOSE j \in slots : \A k \in slots : j <= k
      t1 == IF holds = {} THEN t ELSE [t EXCEPT ![i0].backlog[j0] = -1]
  IN [t1 EXCEPT ![minor].addr = 0]

\* the rollback of a connect(): minor leaves every backlog, its address
\* is cleared
CancelConnect(t, minor) ==
  [i \in Minors |->
     IF i = minor
       THEN [t[i] EXCEPT
               !.addr = 0,
               !.backlog = IF t[i].state = "UDS_INUSE"
                             THEN [j \in 0 .. (UDS_SOMAXCONN - 1) |->
                                     IF j < t[i].backlog_size /\ @[j] = minor
                                       THEN -1 ELSE @[j]]
                             ELSE @]
     ELSE IF t[i].state = "UDS_INUSE"
       THEN [t[i] EXCEPT
               !.backlog = [j \in 0 .. (UDS_SOMAXCONN - 1) |->
                              IF j < t[i].backlog_size /\ @[j] = minor
                                THEN -1 ELSE @[j]]]
     ELSE t[i]]

\* CancelAccept that looks for minor in the peer field
CancelAcceptByPeer(t, minor) ==
  [i \in Minors |->
     IF t[i].peer = minor THEN [t[i] EXCEPT !.child = -1] ELSE t[i]]

\* the rollback of an accept(): no slot keeps minor as its child
CancelAccept(t, minor) ==
  [i \in Minors |->
     IF t[i].child = minor THEN [t[i] EXCEPT !.child = -1] ELSE t[i]]

\* Rollback that leaves the call marked unfinished
RollbackNotDone(t, minor) ==
  LET fd == t[minor]
  IN IF fd.call_nr = "DEV_IOCTL_S"
       THEN CASE fd.ioctl = "NWIOSUDSACCEPT" -> CancelAccept(t, minor)
              [] fd.ioctl = "NWIOSUDSCONN" -> CancelConnect(t, minor)
              [] OTHER -> t
       ELSE t

\* the rollback of the call uds_cancel finds unfinished
Rollback(t, minor) ==
  LET fd == t[minor]
      t1 == IF fd.call_nr = "DEV_IOCTL_S"
              THEN CASE fd.ioctl = "NWIOSUDSACCEPT" -> CancelAccept(t, minor)
                     [] fd.ioctl = "NWIOSUDSCONN" -> CancelConnect(t, minor)
                     [] OTHER -> t
              ELSE t
  IN [t1 EXCEPT ![minor].syscall_done = 1]

uds_cancel(t, minor) ==
  IF t[minor].state # "UDS_INUSE" THEN Ret(Enter(t), SUSPEND)
  ELSE LET t0 == [t EXCEPT ![minor].selecting = 0,
                           ![minor].suspended = "UDS_NOT_SUSPENDED"]
           t1 == IF t0[minor].call_nr # "NONE" /\ t0[minor].syscall_done = 0
                   THEN Rollback(t0, minor)
                   ELSE t0
       IN Ret(Enter(t1), EINTR)

(* --------------------------------------------------------- the machine *)
\* Fields whose value no handler reads before it writes them again are kept
\* at zero between requests: call_nr and ioctl once syscall_done is set
\* (uds_cancel reads them only for an unfinished call), sel_ops_in and
\* sel_ops_out while selecting is 0, io_gr_size unless a read or write is
\* suspended, and the bytes of the inode outside [pos, pos + size).
Canon(t) ==
  [i \in Minors |->
     LET fd == t[i] IN
     [fd EXCEPT
        !.call_nr = IF fd.syscall_done = 1 THEN "NONE" ELSE @,
        !.ioctl = IF fd.syscall_done = 1 THEN "NONE" ELSE @,
        !.sel_ops_in = IF fd.selecting = 0 THEN {} ELSE @,
        !.sel_ops_out = IF fd.selecting = 0 THEN {} ELSE @,
        !.io_gr_size = IF fd.suspended \in {"UDS_SUSPENDED_READ",
                                            "UDS_SUSPENDED_WRITE"}
                         THEN @ ELSE 0,
        !.pipe = [o \in 0 .. (PIPE_BUF - 1) |->
                    IF o >= fd.pos /\ o < fd.pos + fd.size THEN @[o] ELSE 0]]]

\* the connectors that wait in the backlog of a socket of t
Waiting(t) ==
  {m \in Minors :
     \E i \in Minors, j \in 0 .. (UDS_SOMAXCONN - 1) :
        /\ t[i].state = "UDS_INUSE"
        /\ j < t[i].backlog_size
        /\ t[i].backlog[j] = m}

\* arrival after a request that left the table t: who no longer waits is
\* struck out, who waits since this request comes last
Arrivals(order, t) ==
  LET StillWaits(m) == m \in Waiting(t)
      kept == SelectSeq(order, StillWaits)
      new == {m \in Waiting(t) : \A k \in 1 .. Len(order) : order[k] # m}
  IN IF new = {} THEN kept ELSE Append(kept, CHOOSE m \in new : TRUE)

\* One request is handled to its end.  A request whose revives nest beyond
\* MaxDepth ends the server.
Deliver(r) ==
  /\ ~crashed
  /\ \E done \in {r} :
       IF done.crash
         THEN crashed' = TRUE /\ UNCHANGED <<uds_fd_table, arrival>>
         ELSE /\ uds_fd_table' = Canon(done.t)
              /\ arrival' = Arrivals(arrival, done.t)
              /\ UNCHANGED crashed

SelOps == {{SEL_RD}, {SEL_RD, SEL_WR}}
Counts == 1 .. PIPE_BUF
WriteCounts == 1 .. (PIPE_BUF + 1)
Types == {"SOCK_STREAM", "SOCK_DGRAM", "SOCK_SEQPACKET"}
Hows == {{S_IRUSR}, {S_IWUSR}, {S_IRUSR, S_IWUSR}}

Init ==
  /\ uds_fd_table = [i \in Minors |-> ZeroFd]
  /\ crashed = FALSE
  /\ arrival = << >>

\* open(2) while one of the slots 1 .. k is free
Open(k) ==
  /\ FreeSlot(uds_fd_table) \in 1 .. k
  /\ \E cred_ok, node_ok \in BOOLEAN :
        Deliver(uds_open(uds_fd_table, cred_ok, node_ok))

Close(minor) ==
  \E put_ok \in BOOLEAN : Deliver(uds_close(uds_fd_table, minor, put_ok))

Select(minor) ==
  \E ops \in SelOps : Deliver(uds_select(uds_fd_table, minor, ops))

Read(minor) ==
  \E count \in Counts : Deliver(uds_read(uds_fd_table, minor, count))

Write(minor) ==
  \E count \in WriteCounts : Deliver(uds_write(uds_fd_table, minor, count))

Cancel(minor) == Deliver(uds_cancel(uds_fd_table, minor))

Ioctl(minor, request, arg) ==
  Deliver(uds_ioctl(uds_fd_table, minor, request, arg))

\* listen(2) on a socket that socket(2) and bind(2) have set up
Listen(minor) ==
  /\ ConnOriented(uds_fd_table[minor].type)
  /\ uds_fd_table[minor].addr # 0
  /\ Ioctl(minor, "NWIOSUDSBLOG", UDS_SOMAXCONN)

(* Stream and sequential-packet sockets joined by socketpair(): the callers
   open up to IoFds sockets and read, write, cancel and close them. *)
Next ==
  \/ Open(IoFds)
  \/ \E minor \in 0 .. IoFds :
       \/ Close(minor)
       \/ Read(minor)
       \/ Write(minor)
       \/ Cancel(minor)
       \/ \E type \in {"SOCK_STREAM", "SOCK_SEQPACKET"} :
             Ioctl(minor, "NWIOSUDSTYPE", type)
       \/ \E minory \in 0 .. IoFds : Ioctl(minor, "NWIOSUDSPAIR", minory)

Spec == Init /\ [][Next]_vars

(* The same sockets with select(2): every descriptor may be polled. *)
NextSelect ==
  \/ Open(IoFds)
  \/ \E minor \in 0 .. IoFds :
       \/ Close(minor) \/ Read(minor) \/ Write(minor) \/ Select(minor)
       \/ \E type \in {"SOCK_STREAM", "SOCK_SEQPACKET"} :
             Ioctl(minor, "NWIOSUDSTYPE", type)
       \/ \E minory \in 0 .. IoFds : Ioctl(minor, "NWIOSUDSPAIR", minory)

SpecSelect == Init /\ [][NextSelect]_vars

(* A listening socket in slot 1, connecting sockets in slots 2 and 3 and an
   accepting socket in slot ConnFds. *)
NextConn ==
  \/ Open(ConnFds)
  \/ \E minor \in 0 .. ConnFds : Close(minor) \/ Cancel(minor)
  \/ \E minor \in 1 .. 3 : Ioctl(minor, "NWIOSUDSTYPE", "SOCK_STREAM")
  \/ \E addr \in Addrs : Ioctl(1, "NWIOSUDSADDR", addr)
  \/ Listen(1)
  \/ \E minor \in 2 .. 3, addr \in Addrs : Ioctl(minor, "NWIOSUDSCONN", addr)
  \/ \E addr \in Addrs : Ioctl(ConnFds, "NWIOSUDSACCEPT", addr)

SpecConn == Init /\ [][NextConn]_vars

(* A receiving datagram socket in slot 1 and sending sockets in the slots
   above it. *)
NextDgram ==
  \/ Open(DgramFds)
  \/ \E minor \in 0 .. DgramFds : Close(minor) \/ Cancel(minor)
  \/ \E minor \in 1 .. DgramFds : Ioctl(minor, "NWIOSUDSTYPE", "SOCK_DGRAM")
  \/ \E minor \in 1 .. 2, addr \in Addrs : Ioctl(minor, "NWIOSUDSADDR", addr)
  \/ \E minor \in 2 .. DgramFds, addr \in Addrs :
        Ioctl(minor, "NWIOSUDSTADDR", addr)
  \/ Read(1)
  \/ \E minor \in 1 .. DgramFds : Write(minor)

SpecDgram == Init /\ [][NextDgram]_vars

\* shutdown(2) on a connected socket
Shutdown(minor) ==
  /\ uds_fd_table[minor].peer # -1
  /\ \E how \in Hows : Ioctl(minor, "NWIOSUDSSHUT", how)

(* A stream pair either end of which may be shut down for reading, writing
   or both; the callers read and write a pipe's worth of bytes at a time. *)
NextShut ==
  \/ Open(IoFds)
  \/ \E minor \in 0 .. IoFds :
       \/ Close(minor) \/ Shutdown(minor)
       \/ Deliver(uds_read(uds_fd_table, minor, PIPE_BUF))
       \/ Deliver(uds_write(uds_fd_table, minor, PIPE_BUF))
       \/ Ioctl(minor, "NWIOSUDSTYPE", "SOCK_STREAM")
       \/ \E minory \in 0 .. IoFds : Ioctl(minor, "NWIOSUDSPAIR", minory)

SpecShut == Init /\ [][NextShut]_vars

\* the sets of operations a select may ask for
Interests == SUBSET {SEL_RD, SEL_WR}

\* select(2) for any set of operations
Poll(minor) ==
  \E ops \in Interests : Deliver(uds_select(uds_fd_table, minor, ops))

(* A stream pair either end of which may be polled for reading, for writing,
   for both or for neither; the callers read and write a pipe's worth of
   bytes at a time. *)
NextPoll ==
  \/ Open(IoFds)
  \/ \E minor \in 0 .. IoFds :
       \/ Close(minor) \/ Poll(minor)
       \/ Deliver(uds_read(uds_fd_table, minor, PIPE_BUF))
       \/ Deliver(uds_write(uds_fd_table, minor, PIPE_BUF))
       \/ Ioctl(minor, "NWIOSUDSTYPE", "SOCK_STREAM")
       \/ \E minory \in 0 .. IoFds : Ioctl(minor, "NWIOSUDSPAIR", minory)

SpecPoll == Init /\ [][NextPoll]_vars

(* ------------------------------------------------------------- claims *)
InUse(i) == uds_fd_table[i].state = "UDS_INUSE"

\* a and b are the two ends of one connection
Connected(a, b) ==
  /\ a # b
  /\ InUse(a) /\ InUse(b)
  /\ ConnOriented(uds_fd_table[a].type)
  /\ ConnOriented(uds_fd_table[b].type)
  /\ uds_fd_table[a].peer = b
  /\ uds_fd_table[b].peer = a

\* C1: in every reachable state every descriptor has
\* pos + size <= PIPE_BUF.
C1_BufferWithinCapacity ==
  \A i \in Minors :
     uds_fd_table[i].pos + uds_fd_table[i].size <= PIPE_BUF

\* a pipe that was read in part and then filled to its end
C1_Witness ==
  \E i \in Minors :
     /\ InUse(i)
     /\ uds_fd_table[i].pos > 0
     /\ uds_fd_table[i].pos + uds_fd_table[i].size = PIPE_BUF

Replies(r, type, minor) ==
  {k \in 1 .. Len(r.out) : r.out[k].type = type /\ r.out[k].minor = minor}

\* the peer p of minor was asleep in a read or a write
C3_Asleep(p) ==
  uds_fd_table[p].suspended \in
    {"UDS_SUSPENDED_READ", "UDS_SUSPENDED_WRITE"}

\* close(2) of minor unlinks its peer p and wakes it if it was asleep
C3_UnlinksAndWakes(r, p) ==
  /\ ~r.crash
  /\ r.t[p].peer = -1
  /\ C3_Asleep(p) => /\ r.t[p].suspended = "UDS_NOT_SUSPENDED"
                     /\ Replies(r, "DEV_REVIVE", p) # {}

\* C3 as stated: closing a descriptor that has a peer clears the peer's
\* link, leaves the peer's error latch at ECONNRESET and, if the peer was
\* suspended in a read or a write, revives it in the same close: the peer
\* gets a DEV_REVIVE reply and is no longer suspended.
C3_CloseAsStated ==
  \A minor \in Minors, put_ok \in BOOLEAN :
     (InUse(minor) /\ uds_fd_table[minor].peer # -1)
     => LET p == uds_fd_table[minor].peer
            r == uds_close(uds_fd_table, minor, put_ok)
        IN /\ C3_UnlinksAndWakes(r, p)
           /\ r.t[p].err = ECONNRESET

\* close(2) of minor, whose peer is p: the latch is left set, or the call
\* of p that this close retried returned ECONNRESET and took it
C3_CloseOf(minor, p, put_ok) ==
  LET r == uds_close(uds_fd_table, minor, put_ok)
  IN /\ C3_UnlinksAndWakes(r, p)
     /\ \/ r.t[p].err = ECONNRESET
        \/ /\ C3_Asleep(p)
           /\ r.t[p].err = 0
           /\ \E k \in Replies(r, "DEV_REVIVE", p) :
                 r.out[k].status = ECONNRESET

\* C3, amended: closing a descriptor that has a peer clears the peer's link
\* and revives a peer suspended in a read or a write (DEV_REVIVE reply,
\* no longer suspended); the peer's latch is left at ECONNRESET unless the
\* revived call itself returned ECONNRESET, which clears it.
C3_CloseDisconnectsPeer ==
  \A minor \in Minors, put_ok \in BOOLEAN :
     (InUse(minor) /\ uds_fd_table[minor].peer # -1)
     => C3_CloseOf(minor, uds_fd_table[minor].peer, put_ok)

\* a descriptor with a peer asleep in a read is closed and the peer woken
C3_Witness ==
  \E minor \in Minors :
     /\ InUse(minor)
     /\ uds_fd_table[minor].peer # -1
     /\ uds_fd_table[uds_fd_table[minor].peer].suspended
          = "UDS_SUSPENDED_READ"
     /\ C3_CloseOf(minor, uds_fd_table[minor].peer, TRUE)

\* write of n bytes on x, then read of m bytes on y: n comes back, the bytes
\* are those written, and the pipe of y is empty and rewound
C4_RoundTrip(x, y, n, m) ==
  LET w == uds_write(uds_fd_table, x, n)
      r == uds_read(w.t, y, m)
  IN /\ ~w.crash /\ ~r.crash
     /\ w.rc = n
     /\ r.rc = n
     /\ r.data = CallerBytes(x, n)
     /\ r.t[y].size = 0
     /\ r.t[y].pos = 0

C4_Idle(x, y) ==
  /\ uds_fd_table[y].suspended = "UDS_NOT_SUSPENDED"
  /\ S_IWUSR \in uds_fd_table[x].mode
  /\ S_IRUSR \in uds_fd_table[y].mode

C5_Untouched(r, minor) ==
  /\ ~r.crash
  /\ r.out = << >>
  /\ r.t[minor].pos = uds_fd_table[minor].pos
  /\ r.t[minor].size = uds_fd_table[minor].size
  /\ r.t[minor].suspended = uds_fd_table[minor].suspended
  /\ \A other \in Minors \ {minor} : r.t[other] = uds_fd_table[other]

\* C5: a read or a write with pretend set, alone or as uds_select runs
\* them, leaves pos, size and suspended of the probed descriptor and every
\* field of every other descriptor unchanged and sends no reply or revive.
C5_ProbeChangesNothing ==
  \A minor \in Minors :
     /\ \A size \in 1 .. (PIPE_BUF + 1) :
           /\ C5_Untouched(uds_perform_read(Enter(uds_fd_table), minor,
                                            size, TRUE, 0), minor)
           /\ C5_Untouched(uds_perform_write(Enter(uds_fd_table), minor,
                                             size, TRUE, 0), minor)
     /\ \A ops \in SelOps :
           C5_Untouched(uds_select(uds_fd_table, minor, ops), minor)

\* a descriptor was polled whose read probe found its pipe empty and whose
\* write probe found the pipe of its peer occupied: a read would have
\* slept, a write would have slept
C5_Witness ==
  \E minor \in Minors :
     /\ InUse(minor)
     /\ uds_fd_table[minor].selecting = 1
     /\ uds_fd_table[minor].sel_ops_out = {}
     /\ uds_fd_table[minor].size = 0
     /\ uds_fd_table[minor].peer # -1
     /\ uds_fd_table[uds_fd_table[minor].peer].size > 0
     /\ uds_perform_read(Enter(uds_fd_table), minor, 1, TRUE, 0).rc
          = SUSPEND
     /\ uds_perform_write(Enter(uds_fd_table), minor, PIPE_BUF, TRUE, 0).rc
          = SUSPEND

\* the datagram socket that a write of minor resolves to holds a datagram
C6_TargetOccupied(minor) ==
  /\ InUse(minor)
  /\ uds_fd_table[minor].type = "SOCK_DGRAM"
  /\ DgramPeer(uds_fd_table, minor) # -1
  /\ uds_fd_table[DgramPeer(uds_fd_table, minor)].size > 0

\* the write of n bytes on minor is reported as done and dropped
C6_Dropped(minor, n) ==
  LET p == DgramPeer(uds_fd_table, minor)
      r == uds_write(uds_fd_table, minor, n)
  IN /\ ~r.crash
     /\ r.rc = n
     /\ r.out = << >>
     /\ r.t[p].pos = uds_fd_table[p].pos
     /\ r.t[p].size = uds_fd_table[p].size
     /\ r.t[p].pipe = uds_fd_table[p].pipe
     /\ r.t[p].source = uds_fd_table[p].source
     /\ r.t[minor].suspended = uds_fd_table[minor].suspended
     /\ r.t[minor].suspended # "UDS_SUSPENDED_WRITE"

C7_PeerOccupied(minor) ==
  /\ InUse(minor)
  /\ uds_fd_table[minor].type = "SOCK_SEQPACKET"
  /\ uds_fd_table[minor].peer # -1
  /\ uds_fd_table[uds_fd_table[minor].peer].size > 0

\* the write of n bytes on minor sleeps and leaves the packet alone
C7_Sleeps(minor, n) ==
  LET p == uds_fd_table[minor].peer
      r == uds_write(uds_fd_table, minor, n)
  IN /\ ~r.crash
     /\ r.rc = SUSPEND
     /\ r.t[minor].suspended = "UDS_SUSPENDED_WRITE"
     /\ r.t[p].pos = uds_fd_table[p].pos
     /\ r.t[p].size = uds_fd_table[p].size
     /\ r.t[p].pipe = uds_fd_table[p].pipe

\* C7: a write that passes the size and mode checks (at most PIPE_BUF
\* bytes, writer open for writing, peer open for reading) on a
\* sequential-packet descriptor whose peer's pipe is not empty returns
\* SUSPEND, leaves the writer in UDS_SUSPENDED_WRITE and leaves pos, size
\* and bytes of the peer unchanged.
C7_SleepOfFittingWrite ==
  \A minor \in Minors, n \in 1 .. PIPE_BUF :
     ( /\ C7_PeerOccupied(minor)
       /\ S_IWUSR \in uds_fd_table[minor].mode
       /\ S_IRUSR \in uds_fd_table[uds_fd_table[minor].peer].mode )
     => C7_Sleeps(minor, n)

\* a packet of one byte is queued and a second one of one byte, for which
\* the pipe has room, is written behind it
C7_Witness ==
  \E minor \in Minors :
     /\ C7_PeerOccupied(minor)
     /\ uds_fd_table[uds_fd_table[minor].peer].pos
          + uds_fd_table[uds_fd_table[minor].peer].size < PIPE_BUF
     /\ C7_Sleeps(minor, 1)

\* the connectors waiting in the backlog of listener, oldest first
WaitingAt(listener) ==
  LET InBacklog(m) ==
        \E j \in 0 .. (UDS_SOMAXCONN - 1) :
           /\ j < uds_fd_table[listener].backlog_size
           /\ uds_fd_table[listener].backlog[j] = m
  IN SelectSeq(arrival, InBacklog)

InFlight(minor, request) ==
  /\ InUse(minor)
  /\ uds_fd_table[minor].call_nr = "DEV_IOCTL_S"
  /\ uds_fd_table[minor].ioctl = request
  /\ uds_fd_table[minor].syscall_done = 0

\* C9: after cancel on a descriptor whose tracked call is an unfinished
\* accept no descriptor of the table has the cancelled one as child.
C9_CancelClearsChild ==
  \A minor \in Minors :
     InFlight(minor, "NWIOSUDSACCEPT")
     => LET r == uds_cancel(uds_fd_table, minor)
        IN /\ r.rc = EINTR
           /\ \A i \in Minors : r.t[i].child # minor

\* an accept sleeps on a listener that names it as child, and is cancelled
C9_Witness ==
  \E minor, parent \in Minors :
     /\ InFlight(minor, "NWIOSUDSACCEPT")
     /\ uds_fd_table[minor].suspended = "UDS_SUSPENDED_ACCEPT"
     /\ InUse(parent)
     /\ uds_fd_table[parent].child = minor
     /\ uds_cancel(uds_fd_table, minor).t[parent].child = -1

\* minor is in no backlog of t
C10_InNoBacklog(t, minor) ==
  \A i \in Minors, j \in 0 .. (UDS_SOMAXCONN - 1) :
     (t[i].state = "UDS_INUSE" /\ j < t[i].backlog_size)
     => t[i].backlog[j] # minor

\* C10: after cancel on a descriptor whose tracked call is an unfinished
\* connect the descriptor is in no backlog, its address is cleared, it is
\* not suspended, and no accept on the table that the cancel leaves is
\* paired with it.
C10_CancelWithdrawsConnect ==
  \A minor \in Minors :
     InFlight(minor, "NWIOSUDSCONN")
     => LET r == uds_cancel(uds_fd_table, minor)
        IN /\ r.rc = EINTR
           /\ C10_InNoBacklog(r.t, minor)
           /\ r.t[minor].addr = 0
           /\ r.t[minor].suspended = "UDS_NOT_SUSPENDED"
           /\ \A a \in Minors \ {minor}, addr \in Addrs :
                 LET acc == uds_ioctl(Canon(r.t), a, "NWIOSUDSACCEPT", addr)
                 IN /\ acc.t[minor].peer = r.t[minor].peer
                    /\ acc.rc = OK => acc.t[a].peer # minor

\* a connect waits in a backlog behind none, a fresh socket could accept it,
\* and it is cancelled
C10_Witness ==
  \E minor, a \in Minors, addr \in Addrs :
     /\ InFlight(minor, "NWIOSUDSCONN")
     /\ uds_fd_table[minor].suspended = "UDS_SUSPENDED_CONNECT"
     /\ ~C10_InNoBacklog(uds_fd_table, minor)
     /\ uds_ioctl(uds_fd_table, a, "NWIOSUDSACCEPT", addr).t[a].peer = minor
     /\ C10_InNoBacklog(uds_cancel(uds_fd_table, minor).t, minor)

\* C11: cancel on a slot that is not in use returns SUSPEND and changes
\* nothing; cancel on a slot in use leaves selecting = 0, suspended =
\* UDS_NOT_SUSPENDED and syscall_done = 1 and returns EINTR.
C11_CancelOutcome ==
  \A minor \in Minors :
     LET r == uds_cancel(uds_fd_table, minor)
     IN IF InUse(minor)
          THEN /\ r.rc = EINTR
               /\ r.t[minor].selecting = 0
               /\ r.t[minor].suspended = "UDS_NOT_SUSPENDED"
               /\ r.t[minor].syscall_done = 1
          ELSE /\ r.rc = SUSPEND
               /\ r.t = uds_fd_table
               /\ r.out = << >>

\* a descriptor asleep in an unfinished call is cancelled while another slot
\* is free
C11_Witness ==
  \E minor, free \in Minors :
     /\ InUse(minor)
     /\ uds_fd_table[minor].suspended # "UDS_NOT_SUSPENDED"
     /\ uds_fd_table[minor].syscall_done = 0
     /\ uds_cancel(uds_fd_table, minor).t[minor].syscall_done = 1
     /\ ~InUse(free)
     /\ uds_cancel(uds_fd_table, free).rc = SUSPEND

\* minor is a datagram socket and no datagram socket in use is bound to the
\* address it sends to
C12_NoTarget(minor) ==
  /\ InUse(minor)
  /\ uds_fd_table[minor].type = "SOCK_DGRAM"
  /\ \A i \in Minors :
        (InUse(i) /\ uds_fd_table[i].type = "SOCK_DGRAM"
           /\ uds_fd_table[i].addr # 0)
        => uds_fd_table[i].addr # uds_fd_table[minor].target

\* the pipes of t are those of the table
C12_SameBuffers(t) ==
  \A i \in Minors :
     /\ t[i].pos = uds_fd_table[i].pos
     /\ t[i].size = uds_fd_table[i].size
     /\ t[i].pipe = uds_fd_table[i].pipe

\* the write of n bytes on minor fails with ENOENT, the probe reports SUSPEND
C12_Refused(minor, n) ==
  LET r == uds_write(uds_fd_table, minor, n)
      p == uds_perform_write(Enter(uds_fd_table), minor, n, TRUE, 0)
  IN /\ ~r.crash
     /\ r.rc = ENOENT
     /\ r.out = << >>
     /\ r.t[minor].suspended = uds_fd_table[minor].suspended
     /\ r.t[minor].suspended # "UDS_SUSPENDED_WRITE"
     /\ C12_SameBuffers(r.t)
     /\ p.rc = SUSPEND
     /\ C12_SameBuffers(p.t)

\* C12 as stated: a write of any size on a datagram descriptor whose target
\* address is the bound address of no datagram descriptor in use fails with
\* ENOENT, does not suspend the writer and changes no pipe; as a probe it
\* yields SUSPEND.
C12_NoTargetAsStated ==
  \A minor \in Minors, n \in WriteCounts :
     C12_NoTarget(minor) => C12_Refused(minor, n)

\* C12, amended: the same for a write of at most PIPE_BUF bytes from a
\* writer open for writing.
C12_NoTargetOfFittingWrite ==
  \A minor \in Minors, n \in 1 .. PIPE_BUF :
     (C12_NoTarget(minor) /\ S_IWUSR \in uds_fd_table[minor].mode)
     => C12_Refused(minor, n)

\* a sender names an address while a datagram socket is open that is not
\* bound to it
C12_Witness ==
  \E minor, i \in Minors :
     /\ C12_NoTarget(minor)
     /\ uds_fd_table[minor].target # 0
     /\ i # minor /\ InUse(i) /\ uds_fd_table[i].type = "SOCK_DGRAM"
     /\ C12_Refused(minor, 1)

\* the peer of the connection-oriented descriptor minor was closed and the
\* reset has not been reported yet
C13_Latched(minor) ==
  /\ InUse(minor)
  /\ ConnOriented(uds_fd_table[minor].type)
  /\ uds_fd_table[minor].peer = -1
  /\ uds_fd_table[minor].err = ECONNRESET

\* the request that returned r reported the reset of minor and cleared the
\* latch, and the reads on an empty pipe and the writes that follow find no
\* connection
C13_Consumed(r, minor) ==
  /\ r.rc = ECONNRESET
  /\ r.t[minor].err = 0
  /\ \A n \in Counts :
        /\ r.t[minor].size = 0 => uds_read(r.t, minor, n).rc = ENOTCONN
        /\ uds_write(r.t, minor, n).rc = ENOTCONN

\* the reads on an empty pipe and the writes of minor report the reset once
C13_ReadOrWriteConsumes(minor) ==
  \A n \in Counts :
     /\ (uds_fd_table[minor].size = 0 /\ S_IRUSR \in uds_fd_table[minor].mode)
        => C13_Consumed(uds_read(uds_fd_table, minor, n), minor)
     /\ S_IWUSR \in uds_fd_table[minor].mode
        => C13_Consumed(uds_write(uds_fd_table, minor, n), minor)

\* no request on another descriptor, and no request on minor that is not a
\* read or a write, clears the latch of minor
C13_OthersKeep(minor) ==
  /\ \A ops \in SelOps :
        uds_select(uds_fd_table, minor, ops).t[minor].err = ECONNRESET
  /\ uds_cancel(uds_fd_table, minor).t[minor].err = ECONNRESET
  /\ \A other \in Minors \ {minor} :
        /\ \A n \in WriteCounts :
              /\ uds_read(uds_fd_table, other, n).t[minor].err = ECONNRESET
              /\ uds_write(uds_fd_table, other, n).t[minor].err = ECONNRESET
        /\ \A ops \in SelOps :
              uds_select(uds_fd_table, other, ops).t[minor].err = ECONNRESET
        /\ uds_cancel(uds_fd_table, other).t[minor].err = ECONNRESET
        /\ uds_close(uds_fd_table, other, TRUE).t[minor].err = ECONNRESET

\* C13: once the peer of a connected stream or sequential-packet descriptor
\* is closed, the survivor's next read on an empty pipe or next write returns
\* ECONNRESET and clears the latch, the reads and writes after it return
\* ENOTCONN, and no other request clears the latch before that.
C13_LatchConsumedOnce ==
  \A minor \in Minors :
     C13_Latched(minor)
     => C13_ReadOrWriteConsumes(minor) /\ C13_OthersKeep(minor)

\* the slots other than slot 0 that are free
C14_FreeSlots == {i \in 1 .. (NR_FDS - 1) : ~InUse(i)}

\* C14: an open that fails after it chose a slot (getnucred() or
\* fs_newnode() fails) returns the error, leaves the chosen slot free with
\* every field zero and leaves every other slot unchanged.
C14_FailedOpenLeavesNothing ==
  \A cred_ok, node_ok \in BOOLEAN :
     (C14_FreeSlots # {} /\ ~(cred_ok /\ node_ok))
     => LET r == uds_open(uds_fd_table, cred_ok, node_ok)
            minor == First(C14_FreeSlots)
        IN /\ r.rc = (IF cred_ok THEN ENOMEM ELSE ESRCH)
           /\ r.t[minor] = ZeroFd
           /\ \A other \in Minors \ {minor} :
                 r.t[other] = uds_fd_table[other]
           /\ r.out = << >>

\* an open fails for want of an inode while another socket is open
C14_Witness ==
  \E other \in Minors :
     /\ InUse(other)
     /\ C14_FreeSlots # {}
     /\ uds_open(uds_fd_table, TRUE, FALSE).rc = ENOMEM
     /\ uds_open(uds_fd_table, TRUE, FALSE).t[First(C14_FreeSlots)] = ZeroFd

\* C15: an open that succeeds returns the lowest free slot of index 1 or
\* more, never slot 0, and leaves it in use; when no such slot is free open
\* fails with ENFILE and leaves the table unchanged.
C15_OpenTakesLowestFree ==
  \A cred_ok, node_ok \in BOOLEAN :
     LET r == uds_open(uds_fd_table, cred_ok, node_ok)
     IN IF C14_FreeSlots = {}
          THEN r.rc = ENFILE /\ r.t = uds_fd_table
          ELSE (cred_ok /\ node_ok)
               => /\ r.rc = First(C14_FreeSlots)
                  /\ r.rc # 0
                  /\ r.t[r.rc].state = "UDS_INUSE"
                  /\ r.t[0] = uds_fd_table[0]

\* slot 2 is free between two sockets in use and open takes it
C15_Witness ==
  /\ InUse(1) /\ ~InUse(2) /\ InUse(3)
  /\ uds_open(uds_fd_table, TRUE, TRUE).rc = 2

\* every slot but slot 0 is in use and open is refused
C15_TableFull ==
  /\ C14_FreeSlots = {}
  /\ uds_open(uds_fd_table, TRUE, TRUE).rc = ENFILE

\* C16: close on a slot that is not in use fails with EINVAL and changes
\* nothing; close on a slot in use leaves the slot free with every field
\* zero, also when fs_putnode() fails, and then returns that error.
C16_CloseOutcome ==
  \A minor \in Minors, put_ok \in BOOLEAN :
     LET r == uds_close(uds_fd_table, minor, put_ok)
     IN IF InUse(minor)
          THEN /\ ~r.crash
               /\ r.t[minor] = ZeroFd
               /\ r.rc = (IF put_ok THEN OK ELSE ENOMEM)
          ELSE /\ r.rc = EINVAL
               /\ r.t = uds_fd_table
               /\ r.out = << >>

\* a connected socket that holds unread bytes is closed and its inode cannot
\* be released
C16_Witness ==
  \E minor \in Minors :
     /\ InUse(minor)
     /\ uds_fd_table[minor].peer # -1
     /\ uds_fd_table[minor].size > 0
     /\ uds_close(uds_fd_table, minor, FALSE).rc = ENOMEM
     /\ uds_close(uds_fd_table, minor, FALSE).t[minor] = ZeroFd

\* a read probe of minor finds data
C17_DataAvailable(minor) ==
  uds_perform_read(Enter(uds_fd_table), minor, 1, TRUE, 0).rc > 0

\* minor listens and a connector waits in its backlog
C17_ConnectionPending(minor) ==
  /\ uds_fd_table[minor].listening = 1
  /\ \E j \in 0 .. (UDS_SOMAXCONN - 1) :
        /\ j < uds_fd_table[minor].backlog_size
        /\ uds_fd_table[minor].backlog[j] # -1

\* a write probe of minor finds room
C17_RoomToWrite(minor) ==
  uds_perform_write(Enter(uds_fd_table), minor, PIPE_BUF, TRUE, 0).rc > 0

\* the select of minor for ops returns at once with a snapshot
C17_Snapshot(minor, ops) ==
  LET r == uds_select(uds_fd_table, minor, ops)
  IN /\ ~r.crash
     /\ r.rc # SUSPEND
     /\ r.rc = SelMask(r.ops)
     /\ \A i \in Minors : r.t[i].suspended = uds_fd_table[i].suspended
     /\ r.t[minor].selecting = 1
     /\ r.t[minor].sel_ops_in = ops
     /\ (C17_DataAvailable(minor) \/ C17_ConnectionPending(minor))
        => SEL_RD \in r.ops
     /\ C17_RoomToWrite(minor) => SEL_WR \in r.ops

\* C17: select on a descriptor in use never returns SUSPEND and changes no
\* descriptor's suspended state; it records selecting = 1 and the
\* operations asked for and returns a snapshot with SEL_RD set when the read
\* probe finds data or the descriptor listens with a connector waiting, and
\* SEL_WR set when the write probe finds room.
C17_SelectReturnsSnapshot ==
  \A minor \in Minors, ops \in SelOps :
     InUse(minor) => C17_Snapshot(minor, ops)

\* a socket that holds unread bytes and whose peer's pipe is empty is polled
\* while its peer sleeps in a write
C17_Witness ==
  \E minor \in Minors :
     /\ InUse(minor)
     /\ C17_DataAvailable(minor)
     /\ C17_RoomToWrite(minor)
     /\ uds_fd_table[minor].peer # -1
     /\ uds_fd_table[uds_fd_table[minor].peer].suspended
          # "UDS_NOT_SUSPENDED"
     /\ uds_fd_table[minor].selecting = 1
     /\ uds_fd_table[minor].sel_ops_out = {SEL_RD, SEL_WR}
     /\ C17_Snapshot(minor, {SEL_RD, SEL_WR})

\* a listening socket with a connector waiting is polled
C17_ListenerReady ==
  \E minor \in Minors :
     /\ InUse(minor)
     /\ C17_ConnectionPending(minor)
     /\ ~C17_DataAvailable(minor)
     /\ SEL_RD \in uds_select(uds_fd_table, minor, {SEL_RD}).ops

\* the request that returned r failed with rc and changed no pipe and no
\* suspended state
C18_Fails(r, rc) ==
  /\ ~r.crash
  /\ r.rc = rc
  /\ r.out = << >>
  /\ \A i \in Minors :
        /\ r.t[i].pos = uds_fd_table[i].pos
        /\ r.t[i].size = uds_fd_table[i].size
        /\ r.t[i].pipe = uds_fd_table[i].pipe
        /\ r.t[i].suspended = uds_fd_table[i].suspended

\* the descriptor a write of minor puts its bytes into, or -1
C18_Peer(minor) ==
  IF ConnOriented(uds_fd_table[minor].type)
    THEN uds_fd_table[minor].peer
    ELSE LET match == {i \in Minors :
                         /\ uds_fd_table[i].type = "SOCK_DGRAM"
                         /\ uds_fd_table[i].addr # 0
                         /\ uds_fd_table[i].addr = uds_fd_table[minor].target}
         IN IF match = {} THEN -1 ELSE First(match)

C18_MayRead(i) == S_IRUSR \in uds_fd_table[i].mode
C18_MayWrite(i) == S_IWUSR \in uds_fd_table[i].mode

\* every read on a descriptor shut down for reading and every write on one
\* shut down for writing fails with EPIPE
C18_OwnModeRefuses(minor, n) ==
  /\ ~C18_MayRead(minor)
     => C18_Fails(uds_read(uds_fd_table, minor, n), EPIPE)
  /\ ~C18_MayWrite(minor)
     => C18_Fails(uds_write(uds_fd_table, minor, n), EPIPE)

\* C18 as stated: every read on a descriptor shut down for reading fails
\* with EPIPE; every write on a descriptor shut down for writing, or whose
\* peer is shut down for reading, fails with EPIPE; every write of more
\* than PIPE_BUF bytes fails with EMSGSIZE; none changes a pipe or a
\* suspended state.
C18_RefusalsAsStated ==
  \A minor \in Minors, n \in WriteCounts :
     InUse(minor)
     => /\ C18_OwnModeRefuses(minor, n)
        /\ (C18_Peer(minor) # -1 /\ ~C18_MayRead(C18_Peer(minor)))
           => C18_Fails(uds_write(uds_fd_table, minor, n), EPIPE)
        /\ n > PIPE_BUF
           => C18_Fails(uds_write(uds_fd_table, minor, n), EMSGSIZE)

\* C18, amended: the write of more than PIPE_BUF bytes fails with EMSGSIZE
\* on a descriptor open for writing, and the write to a peer shut down for
\* reading fails with EPIPE when it comes from a descriptor open for writing
\* and has at most PIPE_BUF bytes.
C18_RefusalsInOrder ==
  \A minor \in Minors, n \in WriteCounts :
     InUse(minor)
     => /\ C18_OwnModeRefuses(minor, n)
        /\ (C18_MayWrite(minor) /\ n > PIPE_BUF)
           => C18_Fails(uds_write(uds_fd_table, minor, n), EMSGSIZE)
        /\ ( /\ C18_MayWrite(minor) /\ n <= PIPE_BUF
             /\ C18_Peer(minor) # -1 /\ ~C18_MayRead(C18_Peer(minor)) )
           => C18_Fails(uds_write(uds_fd_table, minor, n), EPIPE)

\* a socket open for writing faces a peer that shut down reading while it
\* slept in a read; the write is refused and the peer sleeps on
C18_Witness ==
  \E minor \in Minors :
     /\ InUse(minor)
     /\ C18_MayWrite(minor)
     /\ C18_Peer(minor) # -1
     /\ ~C18_MayRead(C18_Peer(minor))
     /\ uds_fd_table[C18_Peer(minor)].suspended = "UDS_SUSPENDED_READ"
     /\ C18_Fails(uds_write(uds_fd_table, minor, 1), EPIPE)

\* C19: every read, write and close returns: in no reachable state does the
\* chain of nested revives that one request sets off go on without end.
C19_RequestsTerminate ==
  \A minor \in Minors, n \in WriteCounts, put_ok \in BOOLEAN :
     /\ ~uds_read(uds_fd_table, minor, n).crash
     /\ ~uds_write(uds_fd_table, minor, n).crash
     /\ ~uds_close(uds_fd_table, minor, put_ok).crash

\* the transfers that the request that returned r made for minor
C20_Transfers(r, m) == {k \in 1 .. Len(r.io) : r.io[k] = m}

\* the request on minor that returned r sent at most one DEV_REVIVE reply
\* to each descriptor, and none to a descriptor that had no call asleep;
\* beside the transfer of the request itself it made at most one transfer
\* for each descriptor with a read or write asleep, and none for one without
C20_RevivesOnce(r, minor) ==
  \A m \in Minors :
     /\ Cardinality(Replies(r, "DEV_REVIVE", m)) <= 1
     /\ Replies(r, "DEV_REVIVE", m) # {}
        => uds_fd_table[m].suspended # "UDS_NOT_SUSPENDED"
     /\ Cardinality(C20_Transfers(r, m))
          <= (IF C3_Asleep(m) THEN 1 ELSE 0) + (IF m = minor THEN 1 ELSE 0)

\* C20: a suspended call gets at most one DEV_REVIVE reply and its retried
\* transfer is made at most once, and a descriptor that is not suspended
\* gets no DEV_REVIVE reply from a request on another descriptor.
C20_AtMostOneRevive ==
  \A minor \in Minors :
     /\ \A n \in WriteCounts :
           /\ C20_RevivesOnce(uds_read(uds_fd_table, minor, n), minor)
           /\ C20_RevivesOnce(uds_write(uds_fd_table, minor, n), minor)
     /\ \A put_ok \in BOOLEAN :
           C20_RevivesOnce(uds_close(uds_fd_table, minor, put_ok), minor)
     /\ C20_RevivesOnce(uds_cancel(uds_fd_table, minor), minor)
     /\ \A addr \in Addrs :
           /\ C20_RevivesOnce(uds_ioctl(uds_fd_table, minor,
                                        "NWIOSUDSCONN", addr), minor)
           /\ C20_RevivesOnce(uds_ioctl(uds_fd_table, minor,
                                        "NWIOSUDSACCEPT", addr), minor)

\* the outcomes of the requests on minor other than read and write: close,
\* cancel, select and the ioctls
ControlOutcomes(minor) ==
  {uds_close(uds_fd_table, minor, put_ok) : put_ok \in BOOLEAN}
  \cup {uds_cancel(uds_fd_table, minor)}
  \cup {uds_select(uds_fd_table, minor, ops) : ops \in SelOps}
  \cup {uds_ioctl(uds_fd_table, minor, "NWIOSUDSCONN", addr) : addr \in Addrs}
  \cup {uds_ioctl(uds_fd_table, minor, "NWIOSUDSACCEPT", addr) :
          addr \in Addrs}
  \cup {uds_ioctl(uds_fd_table, minor, "NWIOSUDSPAIR", minory) :
          minory \in Minors}
  \cup {uds_ioctl(uds_fd_table, minor, "NWIOSUDSSHUT", how) : how \in Hows}

\* the request that returned r put m to sleep in state st
C21_Enters(r, m, st) ==
  r.t[m].suspended = st /\ uds_fd_table[m].suspended # st

\* r is the outcome of a read (st = UDS_SUSPENDED_READ) or a write
\* (st = UDS_SUSPENDED_WRITE) on minor, other the other of the two states:
\* only minor goes to sleep, only when SUSPEND is returned, and a call that
\* returns SUSPEND sleeps and is sent no reply
C21_Transfer(r, minor, st, other) ==
  ~r.crash
  => /\ \A m \in Minors :
          /\ C21_Enters(r, m, st) => (m = minor /\ r.rc = SUSPEND)
          /\ ~C21_Enters(r, m, other)
     /\ r.rc = SUSPEND => /\ r.t[minor].suspended = st
                          /\ Replies(r, "DEV_REVIVE", minor) = {}

\* C21: suspended becomes UDS_SUSPENDED_READ (UDS_SUSPENDED_WRITE) only for
\* the descriptor of a read (write) request that returns SUSPEND, and every
\* read (write) request that returns SUSPEND leaves its descriptor in
\* UDS_SUSPENDED_READ (UDS_SUSPENDED_WRITE); no open, close, cancel, select
\* or ioctl puts a descriptor into either state.
C21_SleepPairedWithSuspend ==
  /\ \A minor \in Minors, n \in WriteCounts :
        /\ C21_Transfer(uds_read(uds_fd_table, minor, n), minor,
                        "UDS_SUSPENDED_READ", "UDS_SUSPENDED_WRITE")
        /\ C21_Transfer(uds_write(uds_fd_table, minor, n), minor,
                        "UDS_SUSPENDED_WRITE", "UDS_SUSPENDED_READ")
  /\ \A minor \in Minors :
        \A r \in ControlOutcomes(minor)
                   \cup {uds_open(uds_fd_table, cred_ok, node_ok) :
                           cred_ok, node_ok \in BOOLEAN} :
           \A m \in Minors :
              /\ ~C21_Enters(r, m, "UDS_SUSPENDED_READ")
              /\ ~C21_Enters(r, m, "UDS_SUSPENDED_WRITE")

\* a read sleeps on one descriptor, and a write of a full pipe of bytes on a
\* descriptor whose peer holds unread bytes goes to sleep
C21_Witness ==
  \E minor, w \in Minors :
     /\ uds_fd_table[minor].suspended = "UDS_SUSPENDED_READ"
     /\ uds_fd_table[minor].call_nr = "DEV_READ_S"
     /\ InUse(w)
     /\ uds_fd_table[w].suspended # "UDS_SUSPENDED_WRITE"
     /\ uds_write(uds_fd_table, w, PIPE_BUF).rc = SUSPEND
     /\ ~uds_write(uds_fd_table, w, PIPE_BUF).crash
     /\ uds_write(uds_fd_table, w, PIPE_BUF).t[w].suspended
          = "UDS_SUSPENDED_WRITE"

\* the request that returned r took m out of a suspended state
C22_Leaves(r, m) ==
  /\ ~r.crash
  /\ uds_fd_table[m].suspended # "UDS_NOT_SUSPENDED"
  /\ r.t[m].suspended = "UDS_NOT_SUSPENDED"

\* uds_unsuspend woke m while the request that returned r was handled: it
\* sent the deferred reply of m
C22_Revived(r, m) == Replies(r, "DEV_REVIVE", m) # {}

\* the outcomes of the read and write requests on minor
TransferOutcomes(minor) ==
  {uds_read(uds_fd_table, minor, n) : n \in WriteCounts}
  \cup {uds_write(uds_fd_table, minor, n) : n \in WriteCounts}

\* the outcomes of the close and of the cancel of minor
EndOutcomes(minor) ==
  {uds_close(uds_fd_table, minor, put_ok) : put_ok \in BOOLEAN}
  \cup {uds_cancel(uds_fd_table, minor)}

\* C22 as stated: suspended changes from UDS_SUSPENDED_READ, _WRITE,
\* _CONNECT or _ACCEPT to UDS_NOT_SUSPENDED only inside uds_unsuspend.
C22_LeavesOnlyInRevive ==
  \A minor \in Minors :
     \A r \in TransferOutcomes(minor) \cup ControlOutcomes(minor) :
        \A m \in Minors : C22_Leaves(r, m) => C22_Revived(r, m)

\* C22, amended: suspended changes from a suspended state to
\* UDS_NOT_SUSPENDED only inside uds_unsuspend, in the cancel of the
\* descriptor, or in its close, which frees the slot.
C22_LeavesByReviveCancelClose ==
  \A minor \in Minors :
     /\ \A r \in (TransferOutcomes(minor) \cup ControlOutcomes(minor))
                   \ EndOutcomes(minor) :
           \A m \in Minors : C22_Leaves(r, m) => C22_Revived(r, m)
     /\ \A r \in EndOutcomes(minor) :
           \A m \in Minors \ {minor} : C22_Leaves(r, m) => C22_Revived(r, m)

\* a descriptor asleep in a read is woken by the write of its peer, through
\* uds_unsuspend, and would be woken by its cancel, without
C22_Witness ==
  \E minor, m \in Minors :
     /\ uds_fd_table[m].suspended = "UDS_SUSPENDED_READ"
     /\ uds_fd_table[m].peer = minor
     /\ C22_Leaves(uds_write(uds_fd_table, minor, 1), m)
     /\ C22_Revived(uds_write(uds_fd_table, minor, 1), m)
     /\ C22_Leaves(uds_cancel(uds_fd_table, m), m)
     /\ ~C22_Revived(uds_cancel(uds_fd_table, m), m)

\* the call m sleeps in, made afresh on the table as it stands: what an
\* inline completion gives
C23_Inline(m) ==
  IF uds_fd_table[m].suspended = "UDS_SUSPENDED_READ"
    THEN uds_perform_read(Enter(uds_fd_table), m,
                          uds_fd_table[m].io_gr_size, FALSE, 0)
    ELSE uds_perform_write(Enter(uds_fd_table), m,
                           uds_fd_table[m].io_gr_size, FALSE, 0)

\* u is what the revive of m left, i what the call of m gives inline
C23_Retried(u, i, m) ==
  IF i.rc = SUSPEND
    THEN /\ u.t[m].suspended = uds_fd_table[m].suspended
         /\ Replies(u, "DEV_REVIVE", m) = {}
    ELSE /\ u.t[m].suspended = "UDS_NOT_SUSPENDED"
         /\ Cardinality(Replies(u, "DEV_REVIVE", m)) = 1
         /\ \A k \in Replies(u, "DEV_REVIVE", m) :
               u.out[k].status = i.rc /\ u.out[k].data = i.data
         /\ \A o \in Minors \ {m} : u.t[o] = i.t[o]
         /\ u.t[m].pos = i.t[m].pos /\ u.t[m].size = i.t[m].size
         /\ u.t[m].pipe = i.t[m].pipe /\ u.t[m].err = i.t[m].err

\* C23: when uds_unsuspend retries the read or write that m sleeps in and
\* the retry returns SUSPEND, m stays in its suspended state and gets no
\* reply; when it returns anything else, m gets exactly one DEV_REVIVE
\* reply, with the status and the bytes the call would have returned
\* inline, the pipes are as the inline call would have left them, and
\* suspended becomes UDS_NOT_SUSPENDED.
C23_RetryRepliesOnce ==
  \A m \in Minors :
     C3_Asleep(m)
     => LET u == RevivePeer(Enter(uds_fd_table), m, 0)
        IN ~u.crash => C23_Retried(u, C23_Inline(m), m)

\* a descriptor sleeps in a call whose retry transfers bytes: it is woken
\* with one reply that carries them
C23_Witness ==
  \E m \in Minors :
     /\ C3_Asleep(m)
     /\ ~RevivePeer(Enter(uds_fd_table), m, 0).crash
     /\ C23_Inline(m).rc > 0
     /\ C23_Retried(RevivePeer(Enter(uds_fd_table), m, 0), C23_Inline(m), m)

\* the request that returned r woke p with a deferred reply of status n
C24_Woken(r, p, n) ==
  /\ ~r.crash
  /\ r.t[p].suspended = "UDS_NOT_SUSPENDED"
  /\ \E k \in Replies(r, "DEV_REVIVE", p) : r.out[k].status = n

\* the write of n bytes on w stores them in the pipe of a descriptor asleep
\* in a read: that reader is woken with the bytes it asked for, or those
\* buffered if they are fewer
C24_WriteWakesReader(w, n) ==
  LET p == C18_Peer(w)
      r == uds_write(uds_fd_table, w, n)
  IN ( /\ InUse(w) /\ p # -1
       /\ uds_fd_table[p].suspended = "UDS_SUSPENDED_READ"
       /\ r.io # << >> )
     => C24_Woken(r, p, Min(uds_fd_table[p].io_gr_size,
                            uds_fd_table[p].size + n))

\* the read of n bytes on m empties its pipe while its peer is asleep in a
\* write: that write is retried and completes
C24_ReadWakesWriter(m, n) ==
  LET p == uds_fd_table[m].peer
      r == uds_read(uds_fd_table, m, n)
  IN ( /\ InUse(m) /\ p # -1
       /\ uds_fd_table[p].suspended = "UDS_SUSPENDED_WRITE"
       /\ uds_fd_table[m].size > 0
       /\ n >= uds_fd_table[m].size
       /\ r.io # << >> )
     => \E status \in {EPIPE, EMSGSIZE, ENOTCONN, ECONNRESET, ENOENT}
                         \cup (0 .. (PIPE_BUF + 1)) :
           C24_Woken(r, p, status)

\* C24: a write that stores at least one byte in the pipe of a descriptor
\* asleep in a read wakes that reader in the same request (DEV_REVIVE reply
\* with min(requested, buffered) bytes, suspended cleared), and a read that
\* empties the pipe of a descriptor whose peer is asleep in a write has
\* that write retried and completed in the same request.
C24_NoLostWakeup ==
  \A minor \in Minors, n \in Counts :
     C24_WriteWakesReader(minor, n) /\ C24_ReadWakesWriter(minor, n)

\* in table t descriptor D is polled for op and op was not reported
C25_Pending(t, D, op) ==
  /\ t[D].state = "UDS_INUSE"
  /\ t[D].selecting = 1
  /\ op \in t[D].sel_ops_in
  /\ op \notin t[D].sel_ops_out

\* the request that took t to r told D once that op is ready: one
\* DEV_SEL_REPL2 reply that carries the operations ready, op among them
C25_Notified(t, r, D, op) ==
  /\ ~r.crash
  /\ Cardinality(Replies(r, "DEV_SEL_REPL2", D)) = 1
  /\ \A k \in Replies(r, "DEV_SEL_REPL2", D) :
        r.out[k].ops = t[D].sel_ops_out \cup {op}
  /\ r.t[D].sel_ops_out = t[D].sel_ops_out \cup {op}

\* in table t a poll of D would report op
C25_Ready(t, D, op) == op \in uds_select(t, D, {op}).ops

\* the descriptors whose write goes into the pipe of D
C25_WritersTo(t, D) ==
  {w \in Minors :
     /\ t[w].state = "UDS_INUSE"
     /\ IF ConnOriented(t[w].type) THEN t[w].peer = D
                                   ELSE DgramPeer(t, w) = D}

\* in table t every write that stores bytes in the pipe of a descriptor
\* polled for reading and leaves it readable, and every read that empties
\* the pipe a descriptor polled for writing writes to and leaves it
\* writable, tells the poller
C25_Notifies(t) ==
  \A D \in Minors :
     /\ C25_Pending(t, D, SEL_RD)
        => \A w \in C25_WritersTo(t, D), n \in Counts :
              LET r == uds_write(t, w, n)
              IN (r.io # << >> /\ C25_Ready(r.t, D, SEL_RD))
                 => C25_Notified(t, r, D, SEL_RD)
     /\ C25_Pending(t, D, SEL_WR)
        => \A p \in Minors, n \in Counts :
              LET r == uds_read(t, p, n)
              IN ( /\ t[p].state = "UDS_INUSE" /\ t[p].peer = D
                   /\ t[p].size > 0 /\ n >= t[p].size
                   /\ r.io # << >>
                   /\ C25_Ready(r.t, D, SEL_WR) )
                 => C25_Notified(t, r, D, SEL_WR)

\* the request that took t to r sent D a DEV_SEL_REPL2 only for an
\* operation D was polled for and had not been told of
C25_Justified(t, r, D) ==
  Replies(r, "DEV_SEL_REPL2", D) # {}
  => /\ Cardinality(Replies(r, "DEV_SEL_REPL2", D)) = 1
     /\ \E op \in {SEL_RD, SEL_WR} :
           /\ C25_Pending(t, D, op)
           /\ \A k \in Replies(r, "DEV_SEL_REPL2", D) :
                 r.out[k].ops = t[D].sel_ops_out \cup {op}

\* C25: when a descriptor is polled for an operation not yet reported and a
\* write stores bytes in its pipe (SEL_RD) or a read of its peer empties the
\* pipe it writes to (SEL_WR), so that a poll would now report the
\* operation, the same request adds the operation to sel_ops_out and sends
\* one DEV_SEL_REPL2 reply with sel_ops_out; no request sends a
\* DEV_SEL_REPL2 for an operation that was not asked for or was reported
\* before.
C25_PollersAreTold ==
  /\ C25_Notifies(uds_fd_table)
  /\ \A minor \in Minors :
        \A r \in TransferOutcomes(minor) \cup ControlOutcomes(minor) :
           \A D \in Minors : C25_Justified(uds_fd_table, r, D)

\* a descriptor polled for both operations, with nothing to read and the
\* pipe of its peer full, is told of SEL_RD by its peer's write and of
\* SEL_WR by its peer's read
C25_Witness ==
  \E D, p \in Minors :
     /\ Connected(D, p)
     /\ C25_Pending(uds_fd_table, D, SEL_RD)
     /\ C25_Pending(uds_fd_table, D, SEL_WR)
     /\ uds_fd_table[p].size = PIPE_BUF
     /\ C25_Notified(uds_fd_table, uds_write(uds_fd_table, p, 1), D, SEL_RD)
     /\ C25_Notified(uds_fd_table, uds_read(uds_fd_table, p, PIPE_BUF), D,
                     SEL_WR)

\* uds_unsuspend called for m with a readiness report and a revive both
\* pending
C26_BothPending(m) ==
  uds_unsuspend(Enter([uds_fd_table EXCEPT ![m].status_updated = 1,
                                           ![m].ready_to_revive = 1]), m, 0)

\* C26: uds_unsuspend called for a descriptor with status_updated and
\* ready_to_revive both set sends the DEV_SEL_REPL2 reply and nothing else:
\* the call the descriptor sleeps in is not retried, no byte is moved, the
\* descriptor stays in its suspended state and ready_to_revive stays set.
C26_ReadinessFirst ==
  \A m \in Minors :
     InUse(m)
     => LET u == C26_BothPending(m)
        IN /\ ~u.crash
           /\ Len(u.out) = 1
           /\ u.out[1] = Reply("DEV_SEL_REPL2", m, 0,
                               uds_fd_table[m].sel_ops_out, << >>)
           /\ u.io = << >>
           /\ u.t[m].suspended = uds_fd_table[m].suspended
           /\ u.t[m].ready_to_revive = 1
           /\ u.t[m].status_updated = 0
           /\ u.t[m].pos = uds_fd_table[m].pos
           /\ u.t[m].size = uds_fd_table[m].size
           /\ \A o \in Minors \ {m} : u.t[o] = uds_fd_table[o]

\* a polled descriptor asleep in a read or a write: the revive reports the
\* readiness and leaves the call asleep
C26_Witness ==
  \E m \in Minors :
     /\ C3_Asleep(m)
     /\ uds_fd_table[m].selecting = 1
     /\ Replies(C26_BothPending(m), "DEV_SEL_REPL2", m) # {}
     /\ Replies(C26_BothPending(m), "DEV_REVIVE", m) = {}
     /\ C26_BothPending(m).t[m].suspended = uds_fd_table[m].suspended
     /\ C26_BothPending(m).t[m].ready_to_revive = 1

\* the cancel that returned r changed no backlog, no child and not the
\* address of minor
C27_NoRollback(r, minor) ==
  /\ r.t[minor].addr = uds_fd_table[minor].addr
  /\ \A i \in Minors :
        /\ r.t[i].backlog = uds_fd_table[i].backlog
        /\ r.t[i].child = uds_fd_table[i].child

\* C27: cancel rolls back (clears child fields and backlog entries of other
\* descriptors, clears the address of the cancelled one) only when the call
\* of the descriptor has not completed: on a descriptor that is not
\* suspended, whose last call returned its result at once or was woken by
\* uds_unsuspend, cancel changes no backlog, no child and not the address.
C27_RollbackOnlyUnfinished ==
  \A minor \in Minors :
     (InUse(minor) /\ uds_fd_table[minor].suspended = "UDS_NOT_SUSPENDED")
     => C27_NoRollback(uds_cancel(uds_fd_table, minor), minor)

\* in table t the slot h is named by no descriptor in use other than h: not
\* as peer, not as child and not in a backlog
C28_Unreferenced(t, h) ==
  \A i \in Minors \ {h} :
     t[i].state = "UDS_INUSE"
     => /\ t[i].peer # h
        /\ t[i].child # h
        /\ \A j \in 0 .. (UDS_SOMAXCONN - 1) :
              j < t[i].backlog_size => t[i].backlog[j] # h

\* C28: in every reachable state every peer, child and backlog entry of a
\* descriptor in use that is set names a slot in use, and after close of h
\* no other descriptor holds h as peer, child or backlog entry.
C28_ReferencesInUse ==
  \A h \in Minors :
     /\ ~InUse(h) => C28_Unreferenced(uds_fd_table, h)
     /\ InUse(h)
        => \A put_ok \in BOOLEAN :
              C28_Unreferenced(uds_close(uds_fd_table, h, put_ok).t, h)

\* the result r of a write of count bytes on the datagram descriptor minor
\* is final: no SUSPEND, no sleep recorded, and the status is one of no
\* target, broken pipe, message too large or the byte count (the datagram
\* stored or silently dropped)
C29_Final(r, minor, count) ==
  /\ ~r.crash
  /\ r.rc # SUSPEND
  /\ r.t[minor].suspended # "UDS_SUSPENDED_WRITE"
  /\ r.rc \in {ENOENT, EPIPE, EMSGSIZE, count}
  /\ r.rc = EMSGSIZE => count > PIPE_BUF
  /\ r.io # <<>> => r.rc = count

\* C29: a write that is not a probe on a datagram descriptor never returns
\* SUSPEND and never records a suspended write: it ends as no such target,
\* broken pipe, message too large, a silent drop or a completed write; an
\* empty pipe always starts at offset 0.
C29_DgramWriteNeverSleeps ==
  /\ \A i \in Minors :
        uds_fd_table[i].size = 0 => uds_fd_table[i].pos = 0
  /\ \A minor \in Minors :
        (InUse(minor) /\ uds_fd_table[minor].type = "SOCK_DGRAM")
        => \A count \in 1 .. (PIPE_BUF + 1) :
              C29_Final(uds_write(uds_fd_table, minor, count), minor, count)

\* a datagram is waiting in the target's pipe after an earlier one was read
\* in part, and the next datagram for that target is dropped
C29_Witness ==
  \E minor \in Minors :
     /\ InUse(minor) /\ uds_fd_table[minor].type = "SOCK_DGRAM"
     /\ DgramPeer(uds_fd_table, minor) # -1
     /\ uds_fd_table[DgramPeer(uds_fd_table, minor)].pos > 0
     /\ LET r == uds_write(uds_fd_table, minor, PIPE_BUF)
        IN r.rc = PIPE_BUF /\ r.io = <<>>

====
